---- MODULE Spec2Model ----
(***************************************************************************)
(* Model of Src/ProjectFile.cpp: the ProjectFileItem record, the SAX       *)
(* content handler ProjectFileHandler that ProjectFile::Read registers     *)
(* with the parser, and ProjectFile::Save.                                 *)
(*                                                                         *)
(* Text is modelled at two levels, as in the program: a String (the        *)
(* in-memory text) is a sequence of code points, the XML text handed to    *)
(* and received from the XML library is a sequence of UTF-8 bytes.         *)
(***************************************************************************)
EXTENDS Integers, Sequences, FiniteSets, TLC

VARIABLES
    m_items,    \* ProjectFile::m_items, the caller's document
    m_stack,    \* ProjectFileHandler::m_stack, the names of the open elements
    pc,         \* "idle", "saved", "parsing", "done", "error", "fault"
    mode,       \* what the parser reads: "none", "file" (Save's output), "stream"
    orig,       \* the document as the caller built it (m_items at Init)
    file,       \* what Save wrote: the sequence of XMLWriter calls
    pos,        \* file mode: index of the next writer call the parser reads
    rest,       \* file mode: the bytes of the current text node not yet delivered
    nEvents,    \* stream mode: the number of element-open and text events so far
    rootDone,   \* stream mode: the root element has been closed
    opened,     \* per entry: the names of the elements opened inside its group
    owner,      \* per open element: the entry its element-open appended, or 0
    nPaths,     \* number of <paths> elements opened during this Read
    nTopPaths,  \* of these, the number opened as direct children of the root
    cur,        \* the run of text events last dispatched inside one element
    files,      \* the caller's PathContext that GetPaths fills
    bSubfolders, \* the caller's recurse flag that GetPaths may set
    last        \* the accessor called last, with its arguments and the state before

\* the variables of the caller of the accessors
accVars == <<files, bSubfolders, last>>

vars == <<m_items, m_stack, pc, mode, orig, file, pos, rest, nEvents, rootDone,
          opened, owner, nPaths, nTopPaths, cur, files, bSubfolders, last>>

----------------------------------------------------------------------------
(* Bounds of the model *)

\* most entries in a document the caller builds
MaxEntries == 2
\* stream mode: most element-open and text events of one parse
MaxEvents == 5
\* stream mode: deepest element nesting
MaxDepth == 4
\* accessor calls made on one entry
MaxCalls == 2

----------------------------------------------------------------------------
(* Constants for xml element names *)

Root_element_name == "project"
Paths_element_name == "paths"
Left_element_name == "left"
Middle_element_name == "middle"
Right_element_name == "right"
Filter_element_name == "filter"
Subfolders_element_name == "subfolders"
Left_ro_element_name == "left-readonly"
Middle_ro_element_name == "middle-readonly"
Right_ro_element_name == "right-readonly"
Unpacker_element_name == "unpacker"
Prediffer_element_name == "prediffer"
White_spaces_element_name == "white-spaces"
Ignore_blank_lines_element_name == "ignore-blank-lines"
Ignore_case_element_name == "ignore-case"
Ignore_cr_diff_element_name == "ignore-carriage-return-diff"
Ignore_numbers_element_name == "ignore-numbers"
Ignore_codepage_diff_element_name == "ignore-codepage-diff"
Ignore_comment_diff_element_name == "ignore-comment-diff"
Compare_method_element_name == "compare-method"
Hidden_list_element_name == "hidden-list"
Hidden_items_element_name == "hidden-item"

----------------------------------------------------------------------------
(* Text conversions *)

\* ucr::toUTF8: each code point (below 0x800) to its one or two UTF-8 bytes
RECURSIVE toUTF8(_)
toUTF8(s) ==
    IF s = <<>> THEN <<>>
    ELSE (IF Head(s) < 128 THEN <<Head(s)>>
          ELSE <<192 + (Head(s) \div 64), 128 + (Head(s) % 64)>>)
         \o toUTF8(Tail(s))

\* ucr::toTString: UTF-8 bytes back to code points
RECURSIVE toTString(_)
toTString(b) ==
    IF b = <<>> THEN <<>>
    ELSE IF Head(b) < 192 \/ Len(b) < 2
         THEN <<Head(b)>> \o toTString(Tail(b))
         ELSE <<(Head(b) - 192) * 64 + (b[2] - 128)>> \o toTString(Tail(Tail(b)))

xmlch2tstr(ch) == toTString(ch)

IsSpace(b) == b = 32 \/ (b >= 9 /\ b <= 13)
IsDigit(b) == b >= 48 /\ b <= 57

RECURSIVE SkipSpace(_)
SkipSpace(s) == IF s # <<>> /\ IsSpace(Head(s)) THEN SkipSpace(Tail(s)) ELSE s

RECURSIVE LeadingDigits(_, _)
LeadingDigits(s, acc) ==
    IF s # <<>> /\ IsDigit(Head(s))
    THEN LeadingDigits(Tail(s), acc * 10 + (Head(s) - 48))
    ELSE acc

\* atoi: leading white space, an optional sign, then the leading digits; 0 when
\* there are none
atoi(str) ==
    LET s == SkipSpace(str) IN
    IF s # <<>> /\ Head(s) = 45 THEN 0 - LeadingDigits(Tail(s), 0)
    ELSE IF s # <<>> /\ Head(s) = 43 THEN LeadingDigits(Tail(s), 0)
    ELSE LeadingDigits(s, 0)

RECURSIVE DecimalDigits(_)
DecimalDigits(n) ==
    IF n < 10 THEN <<48 + n>>
    ELSE Append(DecimalDigits(n \div 10), 48 + (n % 10))

\* std::to_string(int)
to_string(n) == IF n < 0 THEN <<45>> \o DecimalDigits(0 - n) ELSE DecimalDigits(n)

\* the literals "1" and "0" of the conditional expressions b ? "1" : "0"
BoolText(b) == IF b THEN <<49>> ELSE <<48>>

----------------------------------------------------------------------------
(* ProjectFileItem *)

\* ProjectFileItem::ProjectFileItem(): the member initialisers; the members
\* without one (the paths and the strings, the hidden-item vector) are empty
ProjectFileItem ==
    [ m_paths |-> [Left |-> <<>>, Middle |-> <<>>, Right |-> <<>>],
      m_bHasLeft |-> FALSE,
      m_bHasMiddle |-> FALSE,
      m_bHasRight |-> FALSE,
      m_bHasFilter |-> FALSE,
      m_filter |-> <<>>,
      m_bHasSubfolders |-> FALSE,
      m_bHasUnpacker |-> FALSE,
      m_unpacker |-> <<>>,
      m_bHasPrediffer |-> FALSE,
      m_prediffer |-> <<>>,
      m_subfolders |-> -1,
      m_bLeftReadOnly |-> FALSE,
      m_bMiddleReadOnly |-> FALSE,
      m_bRightReadOnly |-> FALSE,
      m_bHasIgnoreWhite |-> FALSE,
      m_nIgnoreWhite |-> 0,
      m_bHasIgnoreBlankLines |-> FALSE,
      m_bIgnoreBlankLines |-> FALSE,
      m_bHasIgnoreCase |-> FALSE,
      m_bIgnoreCase |-> FALSE,
      m_bHasIgnoreEol |-> FALSE,
      m_bIgnoreEol |-> FALSE,
      m_bHasIgnoreNumbers |-> FALSE,
      m_bIgnoreNumbers |-> FALSE,
      m_bHasIgnoreCodepage |-> FALSE,
      m_bIgnoreCodepage |-> FALSE,
      m_bHasFilterCommentsLines |-> FALSE,
      m_bFilterCommentsLines |-> FALSE,
      m_bHasCompareMethod |-> FALSE,
      m_bHasHiddenItems |-> FALSE,
      m_vSavedHiddenItems |-> <<>>,
      m_nCompareMethod |-> 0,
      m_bSaveFilter |-> TRUE,
      m_bSaveSubfolders |-> TRUE,
      m_bSaveUnpacker |-> TRUE,
      m_bSaveIgnoreWhite |-> TRUE,
      m_bSaveIgnoreBlankLines |-> TRUE,
      m_bSaveIgnoreCase |-> TRUE,
      m_bSaveIgnoreEol |-> TRUE,
      m_bSaveIgnoreNumbers |-> TRUE,
      m_bSaveIgnoreCodepage |-> TRUE,
      m_bSaveFilterCommentsLines |-> TRUE,
      m_bSaveCompareMethod |-> TRUE,
      m_bSaveHiddenItems |-> TRUE ]

----------------------------------------------------------------------------
(* ProjectFileHandler: the SAX content handler *)

\* PushItem with the append restricted to a <paths> element directly under the
\* root
PushItemOnlyUnderRoot(items, stack, localName) ==
    IF localName = Paths_element_name /\ Len(stack) = 1
    THEN Append(items, ProjectFileItem)
    ELSE items

\* startElement, the document half: a <paths> element appends a default entry
PushItem(items, stack, localName) ==
    IF localName = Paths_element_name
    THEN Append(items, ProjectFileItem)
    ELSE items

\* Push that leaves out the names characters does not know
PushKnownOnly(stack, localName) ==
    IF localName \in {Root_element_name, Hidden_list_element_name, "other"}
    THEN stack ELSE Append(stack, localName)

\* startElement, the stack half: m_stack.push(localName)
Push(stack, localName) == Append(stack, localName)

\* endElement: m_stack.pop()
Pop(stack) == SubSeq(stack, 1, Len(stack) - 1)

\* Accumulate that keeps only the newest fragment
AccumulateNewest(old, token) == xmlch2tstr(token)

\* characters: old + xmlch2tstr(ch + start, length), the value a string field
\* gets
Accumulate(old, token) == old \o xmlch2tstr(token)

\* characters: the early return of its first statement
SkipText(stack, items) == Len(stack) # 3 /\ Len(items) = 0

\* characters: the else-if chain over the name on top of the stack, applied
\* to the current item
Dispatch(currentItem, nodename, token) ==
    IF nodename = Left_element_name THEN
        [currentItem EXCEPT !.m_paths.Left = Accumulate(@, token),
                            !.m_bHasLeft = TRUE]
    ELSE IF nodename = Middle_element_name THEN
        [currentItem EXCEPT !.m_paths.Middle = Accumulate(@, token),
                            !.m_bHasMiddle = TRUE]
    ELSE IF nodename = Right_element_name THEN
        [currentItem EXCEPT !.m_paths.Right = Accumulate(@, token),
                            !.m_bHasRight = TRUE]
    ELSE IF nodename = Filter_element_name THEN
        [currentItem EXCEPT !.m_filter = Accumulate(@, token),
                            !.m_bHasFilter = TRUE]
    ELSE IF nodename = Subfolders_element_name THEN
        [currentItem EXCEPT !.m_subfolders = atoi(token),
                            !.m_bHasSubfolders = TRUE]
    ELSE IF nodename = Left_ro_element_name THEN
        [currentItem EXCEPT !.m_bLeftReadOnly = (atoi(token) # 0)]
    ELSE IF nodename = Middle_ro_element_name THEN
        [currentItem EXCEPT !.m_bMiddleReadOnly = (atoi(token) # 0)]
    ELSE IF nodename = Right_ro_element_name THEN
        [currentItem EXCEPT !.m_bRightReadOnly = (atoi(token) # 0)]
    ELSE IF nodename = Unpacker_element_name THEN
        [currentItem EXCEPT !.m_unpacker = Accumulate(@, token),
                            !.m_bHasUnpacker = TRUE]
    ELSE IF nodename = Prediffer_element_name THEN
        [currentItem EXCEPT !.m_prediffer = Accumulate(@, token),
                            !.m_bHasPrediffer = TRUE]
    ELSE IF nodename = White_spaces_element_name THEN
        [currentItem EXCEPT !.m_nIgnoreWhite = atoi(token),
                            !.m_bHasIgnoreWhite = TRUE]
    ELSE IF nodename = Ignore_blank_lines_element_name THEN
        [currentItem EXCEPT !.m_bIgnoreBlankLines = (atoi(token) # 0),
                            !.m_bHasIgnoreBlankLines = TRUE]
    ELSE IF nodename = Ignore_case_element_name THEN
        [currentItem EXCEPT !.m_bIgnoreCase = (atoi(token) # 0),
                            !.m_bHasIgnoreCase = TRUE]
    ELSE IF nodename = Ignore_cr_diff_element_name THEN
        [currentItem EXCEPT !.m_bIgnoreEol = (atoi(token) # 0),
                            !.m_bHasIgnoreEol = TRUE]
    ELSE IF nodename = Ignore_numbers_element_name THEN
        [currentItem EXCEPT !.m_bIgnoreNumbers = (atoi(token) # 0),
                            !.m_bHasIgnoreNumbers = TRUE]
    ELSE IF nodename = Ignore_codepage_diff_element_name THEN
        [currentItem EXCEPT !.m_bIgnoreCodepage = (atoi(token) # 0),
                            !.m_bHasIgnoreCodepage = TRUE]
    ELSE IF nodename = Ignore_comment_diff_element_name THEN
        [currentItem EXCEPT !.m_bFilterCommentsLines = (atoi(token) # 0),
                            !.m_bHasFilterCommentsLines = TRUE]
    ELSE IF nodename = Compare_method_element_name THEN
        [currentItem EXCEPT !.m_nCompareMethod = atoi(token),
                            !.m_bHasCompareMethod = TRUE]
    ELSE IF nodename = Hidden_items_element_name THEN
        [currentItem EXCEPT !.m_vSavedHiddenItems = Append(@, toTString(token)),
                            !.m_bHasHiddenItems = TRUE]
    ELSE currentItem

\* DispatchToBack with the first entry in place of the last
DispatchToFront(items, nodename, token) ==
    [items EXCEPT ![1] = Dispatch(@, nodename, token)]

\* characters on a document that has a last entry: m_pProject->back() is
\* replaced by the dispatched item
DispatchToBack(items, nodename, token) ==
    [items EXCEPT ![Len(items)] = Dispatch(@, nodename, token)]

----------------------------------------------------------------------------
(* ProjectFile::Save, as the sequence of XMLWriter calls that reach the file *)

WStart(tagname) == [t |-> "start", n |-> tagname, c |-> <<>>]
WEnd(tagname) == [t |-> "end", n |-> tagname, c |-> <<>>]
WChars(characters) == [t |-> "chars", n |-> "", c |-> characters]

\* XMLWriter::PRETTY_PRINT: the line break the writer puts before a start tag,
\* and before the end tag of an element that holds elements
PrettyPrint == <<WChars(<<10>>)>>

\* XMLWriter::characters writes nothing for an empty string
writeElement(tagname, characters) ==
    PrettyPrint \o <<WStart(tagname)>>
    \o (IF characters = <<>> THEN <<>> ELSE <<WChars(characters)>>)
    \o <<WEnd(tagname)>>

RECURSIVE HiddenItemElements(_)
HiddenItemElements(hiddenItems) ==
    IF hiddenItems = <<>> THEN <<>>
    ELSE writeElement(Hidden_items_element_name, toUTF8(Head(hiddenItems)))
         \o HiddenItemElements(Tail(hiddenItems))

saveHiddenItems(hiddenItems) ==
    PrettyPrint \o <<WStart(Hidden_list_element_name)>>
    \o HiddenItemElements(hiddenItems)
    \o (IF hiddenItems = <<>> THEN <<>> ELSE PrettyPrint)
    \o <<WEnd(Hidden_list_element_name)>>

SavePaths(item) ==
    (IF item.m_paths.Left # <<>>
     THEN writeElement(Left_element_name, toUTF8(item.m_paths.Left)) ELSE <<>>)
    \o (IF item.m_paths.Middle # <<>>
        THEN writeElement(Middle_element_name, toUTF8(item.m_paths.Middle)) ELSE <<>>)
    \o (IF item.m_paths.Right # <<>>
        THEN writeElement(Right_element_name, toUTF8(item.m_paths.Right)) ELSE <<>>)

\* SaveFilter without the test of m_bSaveFilter
SaveFilterUngated(item) ==
    IF item.m_filter # <<>>
    THEN writeElement(Filter_element_name, toUTF8(item.m_filter)) ELSE <<>>

SaveFilter(item) ==
    IF item.m_bSaveFilter /\ item.m_filter # <<>>
    THEN writeElement(Filter_element_name, toUTF8(item.m_filter)) ELSE <<>>

\* SaveSubfolders with m_subfolders > 0 in place of m_subfolders != 0
SaveSubfoldersPositive(item) ==
    IF item.m_bSaveSubfolders
    THEN writeElement(Subfolders_element_name, BoolText(item.m_subfolders > 0))
    ELSE <<>>

SaveSubfolders(item) ==
    IF item.m_bSaveSubfolders
    THEN writeElement(Subfolders_element_name, BoolText(item.m_subfolders # 0))
    ELSE <<>>

\* SaveReadOnly with the left and right flags gated like the middle one
SaveReadOnlyGatedOnPath(item) ==
    (IF item.m_paths.Left # <<>>
     THEN writeElement(Left_ro_element_name, BoolText(item.m_bLeftReadOnly)) ELSE <<>>)
    \o (IF item.m_paths.Middle # <<>>
        THEN writeElement(Middle_ro_element_name, BoolText(item.m_bMiddleReadOnly))
        ELSE <<>>)
    \o (IF item.m_paths.Right # <<>>
        THEN writeElement(Right_ro_element_name, BoolText(item.m_bRightReadOnly)) ELSE <<>>)

SaveReadOnly(item) ==
    writeElement(Left_ro_element_name, BoolText(item.m_bLeftReadOnly))
    \o (IF item.m_paths.Middle # <<>>
        THEN writeElement(Middle_ro_element_name, BoolText(item.m_bMiddleReadOnly))
        ELSE <<>>)
    \o writeElement(Right_ro_element_name, BoolText(item.m_bRightReadOnly))

SavePlugins(item) ==
    (IF item.m_bSaveUnpacker /\ item.m_unpacker # <<>>
     THEN writeElement(Unpacker_element_name, toUTF8(item.m_unpacker)) ELSE <<>>)
    \o (IF item.m_prediffer # <<>>
        THEN writeElement(Prediffer_element_name, toUTF8(item.m_prediffer)) ELSE <<>>)

\* SaveOptions with <white-spaces> written as a literal "1" or "0"
SaveOptionsWhiteAsBool(item) ==
    (IF item.m_bSaveIgnoreWhite
     THEN writeElement(White_spaces_element_name, BoolText(item.m_nIgnoreWhite # 0))
     ELSE <<>>)
    \o (IF item.m_bSaveIgnoreBlankLines
        THEN writeElement(Ignore_blank_lines_element_name,
                          BoolText(item.m_bIgnoreBlankLines))
        ELSE <<>>)
    \o (IF item.m_bSaveIgnoreCase
        THEN writeElement(Ignore_case_element_name, BoolText(item.m_bIgnoreCase))
        ELSE <<>>)
    \o (IF item.m_bSaveIgnoreEol
        THEN writeElement(Ignore_cr_diff_element_name, BoolText(item.m_bIgnoreEol))
        ELSE <<>>)
    \o (IF item.m_bSaveIgnoreNumbers
        THEN writeElement(Ignore_numbers_element_name, BoolText(item.m_bIgnoreNumbers))
        ELSE <<>>)
    \o (IF item.m_bSaveIgnoreCodepage
        THEN writeElement(Ignore_codepage_diff_element_name,
                          BoolText(item.m_bIgnoreCodepage))
        ELSE <<>>)
    \o (IF item.m_bSaveFilterCommentsLines
        THEN writeElement(Ignore_comment_diff_element_name,
                          BoolText(item.m_bFilterCommentsLines))
        ELSE <<>>)
    \o (IF item.m_bSaveCompareMethod
        THEN writeElement(Compare_method_element_name, to_string(item.m_nCompareMethod))
        ELSE <<>>)

SaveOptions(item) ==
    (IF item.m_bSaveIgnoreWhite
     THEN writeElement(White_spaces_element_name, to_string(item.m_nIgnoreWhite))
     ELSE <<>>)
    \o (IF item.m_bSaveIgnoreBlankLines
        THEN writeElement(Ignore_blank_lines_element_name,
                          BoolText(item.m_bIgnoreBlankLines))
        ELSE <<>>)
    \o (IF item.m_bSaveIgnoreCase
        THEN writeElement(Ignore_case_element_name, BoolText(item.m_bIgnoreCase))
        ELSE <<>>)
    \o (IF item.m_bSaveIgnoreEol
        THEN writeElement(Ignore_cr_diff_element_name, BoolText(item.m_bIgnoreEol))
        ELSE <<>>)
    \o (IF item.m_bSaveIgnoreNumbers
        THEN writeElement(Ignore_numbers_element_name, BoolText(item.m_bIgnoreNumbers))
        ELSE <<>>)
    \o (IF item.m_bSaveIgnoreCodepage
        THEN writeElement(Ignore_codepage_diff_element_name,
                          BoolText(item.m_bIgnoreCodepage))
        ELSE <<>>)
    \o (IF item.m_bSaveFilterCommentsLines
        THEN writeElement(Ignore_comment_diff_element_name,
                          BoolText(item.m_bFilterCommentsLines))
        ELSE <<>>)
    \o (IF item.m_bSaveCompareMethod
        THEN writeElement(Compare_method_element_name, to_string(item.m_nCompareMethod))
        ELSE <<>>)

SaveHidden(item) ==
    IF item.m_bSaveHiddenItems /\ Len(item.m_vSavedHiddenItems) > 0
    THEN saveHiddenItems(item.m_vSavedHiddenItems) ELSE <<>>

\* SaveItem with the read-only flags written before the filter
SaveItemReadOnlyFirst(item) ==
    PrettyPrint \o <<WStart(Paths_element_name)>>
    \o SavePaths(item) \o SaveReadOnly(item) \o SaveFilter(item)
    \o SaveSubfolders(item) \o SavePlugins(item) \o SaveOptions(item)
    \o SaveHidden(item)
    \o PrettyPrint \o <<WEnd(Paths_element_name)>>

\* one pass of the loop over m_items
SaveItem(item) ==
    PrettyPrint \o <<WStart(Paths_element_name)>>
    \o SavePaths(item) \o SaveFilter(item) \o SaveSubfolders(item)
    \o SaveReadOnly(item) \o SavePlugins(item) \o SaveOptions(item)
    \o SaveHidden(item)
    \o PrettyPrint \o <<WEnd(Paths_element_name)>>

RECURSIVE SaveItems(_)
SaveItems(items) ==
    IF items = <<>> THEN <<>> ELSE SaveItem(Head(items)) \o SaveItems(Tail(items))

Save(items) ==
    <<WStart(Root_element_name)>>
    \o SaveItems(items)
    \o (IF items = <<>> THEN <<>> ELSE PrettyPrint)
    \o <<WEnd(Root_element_name)>>

----------------------------------------------------------------------------
(* The documents the caller builds before Save or Read *)

\* the Strings "a" and "eb" with e-acute (two UTF-8 bytes)
StrA == <<97>>
StrEB == <<233, 98>>

Items ==
    { ProjectFileItem,
      \* a two-way comparison, left read-only, recursive
      [ProjectFileItem EXCEPT !.m_paths = [Left |-> StrA, Middle |-> <<>>, Right |-> StrEB],
          !.m_bHasLeft = TRUE, !.m_bHasRight = TRUE, !.m_bLeftReadOnly = TRUE,
          !.m_subfolders = 1, !.m_bHasSubfolders = TRUE],
      \* a three-way comparison, middle read-only
      [ProjectFileItem EXCEPT !.m_paths = [Left |-> StrEB, Middle |-> StrA, Right |-> StrA],
          !.m_bHasLeft = TRUE, !.m_bHasMiddle = TRUE, !.m_bHasRight = TRUE,
          !.m_bMiddleReadOnly = TRUE, !.m_subfolders = 0, !.m_bHasSubfolders = TRUE],
      \* no middle path but its read-only flag set; subfolders not persisted
      [ProjectFileItem EXCEPT !.m_paths = [Left |-> <<>>, Middle |-> <<>>, Right |-> StrA],
          !.m_bMiddleReadOnly = TRUE, !.m_bRightReadOnly = TRUE,
          !.m_subfolders = 2, !.m_bHasSubfolders = TRUE, !.m_bSaveSubfolders = FALSE],
      \* filter and unpacker set but not persisted
      [ProjectFileItem EXCEPT !.m_filter = StrA, !.m_bHasFilter = TRUE,
          !.m_bSaveFilter = FALSE, !.m_unpacker = StrEB, !.m_bHasUnpacker = TRUE,
          !.m_bSaveUnpacker = FALSE, !.m_prediffer = StrA, !.m_bHasPrediffer = TRUE],
      \* filter, unpacker and prediffer set and persisted
      [ProjectFileItem EXCEPT !.m_filter = StrEB, !.m_bHasFilter = TRUE,
          !.m_unpacker = StrA, !.m_bHasUnpacker = TRUE,
          !.m_prediffer = StrEB, !.m_bHasPrediffer = TRUE],
      \* comparison options, all persisted
      [ProjectFileItem EXCEPT !.m_nIgnoreWhite = 2, !.m_bHasIgnoreWhite = TRUE,
          !.m_bIgnoreBlankLines = TRUE, !.m_bHasIgnoreBlankLines = TRUE,
          !.m_bIgnoreEol = TRUE, !.m_bHasIgnoreEol = TRUE,
          !.m_bIgnoreCodepage = TRUE, !.m_bHasIgnoreCodepage = TRUE,
          !.m_nCompareMethod = 3, !.m_bHasCompareMethod = TRUE],
      \* comparison options, some not persisted
      [ProjectFileItem EXCEPT !.m_nIgnoreWhite = 1, !.m_bSaveIgnoreWhite = FALSE,
          !.m_bIgnoreCase = TRUE, !.m_bHasIgnoreCase = TRUE,
          !.m_bIgnoreNumbers = TRUE, !.m_bSaveIgnoreNumbers = FALSE,
          !.m_bFilterCommentsLines = TRUE, !.m_bHasFilterCommentsLines = TRUE,
          !.m_bSaveIgnoreEol = FALSE,
          !.m_nCompareMethod = 12, !.m_bSaveCompareMethod = FALSE],
      \* hidden items
      [ProjectFileItem EXCEPT !.m_vSavedHiddenItems = <<StrA>>, !.m_bHasHiddenItems = TRUE],
      [ProjectFileItem EXCEPT !.m_paths = [Left |-> StrA, Middle |-> <<>>, Right |-> StrA],
          !.m_vSavedHiddenItems = <<StrEB, StrA>>, !.m_bHasHiddenItems = TRUE],
      [ProjectFileItem EXCEPT !.m_vSavedHiddenItems = <<StrA, StrA>>,
          !.m_bHasHiddenItems = TRUE, !.m_bSaveHiddenItems = FALSE] }

Docs == UNION { [1..n -> Items] : n \in 0..MaxEntries }

\* the documents a stream is read into
StreamDocs ==
    { <<>>,
      <<[ProjectFileItem EXCEPT !.m_paths = [Left |-> StrA, Middle |-> <<>>, Right |-> StrEB],
          !.m_bHasLeft = TRUE, !.m_bHasRight = TRUE, !.m_bLeftReadOnly = TRUE,
          !.m_subfolders = 1, !.m_bHasSubfolders = TRUE]>> }

----------------------------------------------------------------------------
(* The parser: the events it may deliver next *)

LeafNames ==
    { Left_element_name, Middle_element_name, Right_element_name, Filter_element_name,
      Subfolders_element_name, Left_ro_element_name, Middle_ro_element_name,
      Right_ro_element_name, Unpacker_element_name, Prediffer_element_name,
      White_spaces_element_name, Ignore_blank_lines_element_name,
      Ignore_case_element_name, Ignore_cr_diff_element_name,
      Ignore_numbers_element_name, Ignore_codepage_diff_element_name,
      Ignore_comment_diff_element_name, Compare_method_element_name,
      Hidden_items_element_name }

\* stream mode: the element names tried at each nesting depth; "other" is a
\* name the handler does not know
NamesAt(depth) ==
    IF depth = 0 THEN {Root_element_name, Paths_element_name}
    ELSE IF depth = 1 THEN {Paths_element_name, Left_element_name, "other"}
    ELSE IF depth = 2
         THEN LeafNames \cup {Paths_element_name, Hidden_list_element_name, "other"}
    ELSE {Hidden_items_element_name, Left_element_name}

\* stream mode: the text payloads tried: "", "1", "a"
Tokens == { <<>>, <<49>>, <<97>> }

\* the places where a text node may be cut: after a whole character
Cuts(bytes) ==
    { k \in 1..Len(bytes) : k = Len(bytes) \/ bytes[k + 1] < 128 \/ bytes[k + 1] >= 192 }

\* file mode: the text still to deliver of the text node at pos
Pending == IF rest # <<>> THEN rest ELSE file[pos].c

\* the element names the parser may open next
StartOffers ==
    IF mode = "file"
    THEN IF pos \in 1..Len(file) /\ rest = <<>> /\ file[pos].t = "start"
         THEN {file[pos].n} ELSE {}
    ELSE IF mode = "stream" /\ ~rootDone /\ nEvents < MaxEvents /\ Len(m_stack) < MaxDepth
         THEN NamesAt(Len(m_stack)) ELSE {}

\* whether the parser may close the innermost element next
OffersEnd ==
    IF mode = "file"
    THEN pos \in 1..Len(file) /\ rest = <<>> /\ file[pos].t = "end"
    ELSE mode = "stream" /\ m_stack # <<>>

\* the text events the parser may deliver next: in file mode any cut of the
\* text node still to deliver
TextOffers ==
    IF mode = "file"
    THEN IF pos \in 1..Len(file) /\ file[pos].t = "chars"
         THEN { SubSeq(Pending, 1, k) : k \in Cuts(Pending) } ELSE {}
    ELSE IF mode = "stream" /\ m_stack # <<>> /\ nEvents < MaxEvents
         THEN Tokens ELSE {}

\* no run of text events is being followed
NoText == [name |-> "", base |-> <<>>, frags |-> <<>>, open |-> FALSE]

----------------------------------------------------------------------------
(* Actions *)

Init ==
    /\ m_items \in Docs
    /\ orig = m_items
    /\ m_stack = <<>>
    /\ pc = "idle"
    /\ mode = "none"
    /\ file = <<>>
    /\ pos = 0
    /\ rest = <<>>
    /\ nEvents = 0
    /\ rootDone = FALSE
    /\ opened = <<>>
    /\ owner = <<>>
    /\ nPaths = 0
    /\ nTopPaths = 0
    /\ cur = NoText
    /\ files = [Left |-> <<>>, Middle |-> <<>>, Right |-> <<>>]
    /\ bSubfolders = FALSE
    /\ last = [op |-> "none", n |-> 0]

\* ProjectFile::Save
SaveFile ==
    /\ pc = "idle"
    /\ file' = Save(m_items)
    /\ pc' = "saved"
    /\ UNCHANGED <<m_items, m_stack, mode, orig, pos, rest, nEvents, rootDone,
                   opened, owner, nPaths, nTopPaths, cur>>
    /\ UNCHANGED accVars

\* ProjectFile::Read of the saved file, called on a newly constructed ProjectFile
ReadFile ==
    /\ pc = "saved"
    /\ m_items' = <<>>
    /\ opened' = <<>>
    /\ mode' = "file"
    /\ pos' = 1
    /\ pc' = "parsing"
    /\ UNCHANGED <<m_stack, orig, file, rest, nEvents, rootDone, owner, nPaths, nTopPaths, cur>>
    /\ UNCHANGED accVars

\* ProjectFile::Read of some other source, called on the caller's document
ReadStream ==
    /\ pc = "idle"
    /\ m_items \in StreamDocs
    /\ opened' = [i \in 1..Len(m_items) |-> {}]
    /\ mode' = "stream"
    /\ pc' = "parsing"
    /\ UNCHANGED <<m_items, m_stack, orig, file, pos, rest, nEvents, rootDone,
                   owner, nPaths, nTopPaths, cur>>
    /\ UNCHANGED accVars

\* ProjectFileHandler::startElement
startElement(localName) ==
    /\ pc = "parsing"
    /\ localName \in StartOffers
    /\ m_items' = PushItem(m_items, m_stack, localName)
    /\ m_stack' = Push(m_stack, localName)
    /\ cur' = NoText
    /\ owner' = Append(owner, IF Len(m_items') > Len(m_items) THEN Len(m_items') ELSE 0)
    /\ opened' = [i \in 1..Len(m_items') |->
                    (IF i <= Len(opened) THEN opened[i] ELSE {})
                    \cup (IF \E j \in 1..Len(owner) : owner[j] = i
                          THEN {localName} ELSE {})]
    /\ nPaths' = nPaths + (IF localName = Paths_element_name THEN 1 ELSE 0)
    /\ nTopPaths' = nTopPaths
           + (IF localName = Paths_element_name /\ Len(m_stack) = 1 THEN 1 ELSE 0)
    /\ pos' = IF mode = "file" THEN pos + 1 ELSE pos
    /\ nEvents' = IF mode = "stream" THEN nEvents + 1 ELSE nEvents
    /\ UNCHANGED <<pc, mode, orig, file, rest, rootDone>>
    /\ UNCHANGED accVars

\* ProjectFileHandler::endElement
endElement ==
    /\ pc = "parsing"
    /\ OffersEnd
    /\ m_stack' = Pop(m_stack)
    /\ cur' = IF cur.open THEN [cur EXCEPT !.open = FALSE] ELSE NoText
    /\ owner' = SubSeq(owner, 1, Len(owner) - 1)
    /\ pos' = IF mode = "file" THEN pos + 1 ELSE pos
    /\ rootDone' = (mode = "stream" /\ Len(m_stack) = 1)
    /\ UNCHANGED <<m_items, pc, mode, orig, file, rest, nEvents, opened, nPaths, nTopPaths>>
    /\ UNCHANGED accVars

\* ProjectFileHandler::characters.  With no entry in the document and three
\* open elements, back() is called on an empty list: undefined behaviour, which
\* either ends the process or goes unnoticed.
characters(token) ==
    /\ pc = "parsing"
    /\ token \in TextOffers
    /\ IF SkipText(m_stack, m_items)
       THEN m_items' = m_items /\ pc' = pc /\ cur' = NoText
       ELSE IF Len(m_items) = 0
            THEN m_items' = m_items /\ pc' \in {"parsing", "fault"} /\ cur' = NoText
            ELSE /\ m_items' = DispatchToBack(m_items, m_stack[Len(m_stack)], token)
                 /\ pc' = pc
                 /\ cur' = IF cur.open
                            THEN [cur EXCEPT !.frags = Append(@, token)]
                            ELSE [name |-> m_stack[Len(m_stack)],
                                  base |-> <<m_items[Len(m_items)]>>,
                                  frags |-> <<token>>, open |-> TRUE]
    /\ IF mode = "file"
       THEN /\ rest' = SubSeq(Pending, Len(token) + 1, Len(Pending))
            /\ pos' = IF rest' = <<>> THEN pos + 1 ELSE pos
            /\ nEvents' = nEvents
       ELSE /\ nEvents' = nEvents + 1
            /\ UNCHANGED <<pos, rest>>
    /\ UNCHANGED <<m_stack, mode, orig, file, rootDone, opened, owner, nPaths, nTopPaths>>
    /\ UNCHANGED accVars

\* the parser reports a syntax error: parse throws and Read does not return
SyntaxError ==
    /\ pc = "parsing"
    /\ mode = "stream"
    /\ ~rootDone
    /\ pc' = "error"
    /\ UNCHANGED <<m_items, m_stack, mode, orig, file, pos, rest, nEvents, rootDone,
                   opened, owner, nPaths, nTopPaths, cur>>
    /\ UNCHANGED accVars

\* the parser reaches the end of the document: Read returns true
endDocument ==
    /\ pc = "parsing"
    /\ IF mode = "file" THEN pos > Len(file) ELSE rootDone
    /\ pc' = "done"
    /\ UNCHANGED <<m_items, m_stack, mode, orig, file, pos, rest, nEvents, rootDone,
                   opened, owner, nPaths, nTopPaths, cur>>
    /\ UNCHANGED accVars

\* the parser opens an element
ParserStartElement == \E localName \in StartOffers : startElement(localName)

\* the parser delivers a text event
ParserCharacters == \E token \in TextOffers : characters(token)

Next ==
    \/ SaveFile
    \/ ReadFile
    \/ ReadStream
    \/ ParserStartElement
    \/ endElement
    \/ ParserCharacters
    \/ SyntaxError
    \/ endDocument

Spec == Init /\ [][Next]_vars

----------------------------------------------------------------------------
(* Reading the written file: helpers of the properties *)

\* Save and then Read into a new document have both completed
RoundTripDone == pc = "done" /\ mode = "file"

\* the writer calls of the i-th <paths> group of f, both tags included
Group(f, i) ==
    LET starts == { k \in 1..Len(f) : f[k] = WStart(Paths_element_name) }
        from == CHOOSE k \in starts : Cardinality({ j \in starts : j <= k }) = i
        ends == { k \in from..Len(f) : f[k] = WEnd(Paths_element_name) }
        to == CHOOSE k \in ends : \A j \in ends : k <= j
    IN  SubSeq(f, from, to)

NumGroups(f) == Cardinality({ k \in 1..Len(f) : f[k] = WStart(Paths_element_name) })

\* how many elements named tagname the group g holds
Count(g, tagname) == Cardinality({ k \in 1..Len(g) : g[k] = WStart(tagname) })

\* the texts of the elements named tagname in the group g
Texts(g, tagname) ==
    { g[k + 1].c : k \in { j \in 1..(Len(g) - 1) :
                             g[j] = WStart(tagname) /\ g[j + 1].t = "chars" } }

AllPersist(item) ==
    /\ item.m_bSaveFilter /\ item.m_bSaveSubfolders /\ item.m_bSaveUnpacker
    /\ item.m_bSaveIgnoreWhite /\ item.m_bSaveIgnoreBlankLines /\ item.m_bSaveIgnoreCase
    /\ item.m_bSaveIgnoreEol /\ item.m_bSaveIgnoreNumbers /\ item.m_bSaveIgnoreCodepage
    /\ item.m_bSaveFilterCommentsLines /\ item.m_bSaveCompareMethod
    /\ item.m_bSaveHiddenItems

\* the fields of C1 other than the hidden-item list
SameValues(a, b) ==
    /\ a.m_paths = b.m_paths
    /\ a.m_filter = b.m_filter
    /\ a.m_unpacker = b.m_unpacker
    /\ a.m_prediffer = b.m_prediffer
    /\ a.m_nIgnoreWhite = b.m_nIgnoreWhite
    /\ a.m_bIgnoreBlankLines = b.m_bIgnoreBlankLines
    /\ a.m_bIgnoreCase = b.m_bIgnoreCase
    /\ a.m_bIgnoreEol = b.m_bIgnoreEol
    /\ a.m_bIgnoreNumbers = b.m_bIgnoreNumbers
    /\ a.m_bIgnoreCodepage = b.m_bIgnoreCodepage
    /\ a.m_bFilterCommentsLines = b.m_bFilterCommentsLines
    /\ a.m_nCompareMethod = b.m_nCompareMethod

\* the has flag of the field that the element named tagname fills
HasFlag(item, tagname) ==
    IF tagname = Left_element_name THEN item.m_bHasLeft
    ELSE IF tagname = Middle_element_name THEN item.m_bHasMiddle
    ELSE IF tagname = Right_element_name THEN item.m_bHasRight
    ELSE IF tagname = Filter_element_name THEN item.m_bHasFilter
    ELSE IF tagname = Subfolders_element_name THEN item.m_bHasSubfolders
    ELSE IF tagname = Unpacker_element_name THEN item.m_bHasUnpacker
    ELSE IF tagname = Prediffer_element_name THEN item.m_bHasPrediffer
    ELSE IF tagname = White_spaces_element_name THEN item.m_bHasIgnoreWhite
    ELSE IF tagname = Ignore_blank_lines_element_name THEN item.m_bHasIgnoreBlankLines
    ELSE IF tagname = Ignore_case_element_name THEN item.m_bHasIgnoreCase
    ELSE IF tagname = Ignore_cr_diff_element_name THEN item.m_bHasIgnoreEol
    ELSE IF tagname = Ignore_numbers_element_name THEN item.m_bHasIgnoreNumbers
    ELSE IF tagname = Ignore_codepage_diff_element_name THEN item.m_bHasIgnoreCodepage
    ELSE IF tagname = Ignore_comment_diff_element_name THEN item.m_bHasFilterCommentsLines
    ELSE IF tagname = Compare_method_element_name THEN item.m_bHasCompareMethod
    ELSE item.m_bHasHiddenItems

\* the elements whose field carries a has flag
HasNames == LeafNames \ {Left_ro_element_name, Middle_ro_element_name, Right_ro_element_name}

\* the entries the document held when Read was called
Before == IF mode = "file" THEN <<>> ELSE orig

----------------------------------------------------------------------------
(* Properties *)

\* C1: after Save and Read into an empty document, a document whose entries
\* all have every persist flag true comes back with as many entries, each with
\* the same paths, filter, unpacker, prediffer, ignore-whitespace code, boolean
\* options, compare-method and hidden-item list.
C1_RoundTrip ==
    (RoundTripDone /\ \A i \in 1..Len(orig) : AllPersist(orig[i]))
    => /\ Len(m_items) = Len(orig)
       /\ \A i \in 1..Len(orig) :
            /\ SameValues(m_items[i], orig[i])
            /\ m_items[i].m_vSavedHiddenItems = orig[i].m_vSavedHiddenItems

\* C2: when the parser reports a syntax error, the caller's document holds
\* nothing of what was parsed before the error.
C2_NoPartialDocument == pc = "error" => m_items = Before

\* C3: a text event delivered while the number of open elements is not three
\* changes no field and no has flag of any entry.
C3_DepthGate ==
    [][(ParserCharacters /\ Len(m_stack) # 3)
       => m_items' = m_items]_vars

\* C4: a text event is dispatched only when the document has an entry and is
\* discarded otherwise, so that Read never faults.
C4_NeverFaults == pc # "fault"

\* C5: after Read into an empty document, a has flag of an entry is true
\* exactly when the field's element was opened inside the entry's group.
C5_HasIffOpened ==
    (pc = "done" /\ Before = <<>>)
    => \A i \in 1..Len(m_items) : \A tagname \in HasNames :
         HasFlag(m_items[i], tagname) <=> tagname \in opened[i]

\* C6 as amended: an entry with saveSubfolders true and subfolders = -1 is
\* written with the <subfolders> text "1", and reads back with subfolders = 1.
C6_UnsetSubfoldersWrittenAsOne ==
    RoundTripDone
    => /\ Len(m_items) = Len(orig)
       /\ NumGroups(file) = Len(orig)
       /\ \A i \in 1..Len(orig) :
            (orig[i].m_bSaveSubfolders /\ orig[i].m_subfolders = -1)
            => /\ Texts(Group(file, i), Subfolders_element_name) = {<<49>>}
               /\ m_items[i].m_subfolders = 1

\* C6 as stated: the emitted text is "0" and the entry reads back with
\* subfolders = 0.
C6_UnsetSubfoldersWrittenAsZero ==
    RoundTripDone
    => \A i \in 1..Len(orig) :
         (orig[i].m_bSaveSubfolders /\ orig[i].m_subfolders = -1)
         => /\ Texts(Group(file, i), Subfolders_element_name) = {<<48>>}
            /\ m_items[i].m_subfolders = 0

C6_Witness ==
    /\ RoundTripDone
    /\ \E i \in 1..Len(orig) : orig[i].m_bSaveSubfolders /\ orig[i].m_subfolders = -1

\* C7: after Save and Read into an empty document the i-th entry has the left
\* and right paths of the i-th original entry and the same hidden-item list;
\* stated here for the documents whose hidden items are persisted.
C7_OrderPreserved ==
    (RoundTripDone /\ \A i \in 1..Len(orig) : orig[i].m_bSaveHiddenItems)
    => /\ Len(m_items) = Len(orig)
       /\ \A i \in 1..Len(orig) :
            /\ m_items[i].m_paths.Left = orig[i].m_paths.Left
            /\ m_items[i].m_paths.Right = orig[i].m_paths.Right
            /\ m_items[i].m_vSavedHiddenItems = orig[i].m_vSavedHiddenItems

\* C8 as amended: the number of entries appended by a parse is the number of
\* <paths> elements opened at any depth, and every open <paths> element has
\* had its entry appended when it was opened.
C8_OneEntryPerPathsElement ==
    pc \in {"parsing", "done", "error", "fault"}
    => /\ Len(m_items) = Len(Before) + nPaths
       /\ \A j \in 1..Len(m_stack) :
            m_stack[j] = Paths_element_name
            => owner[j] \in (Len(Before) + 1)..Len(m_items)

\* C8 as stated: the number of entries appended is the number of <paths>
\* elements opened as direct children of the root.
C8_OneEntryPerTopLevelGroup ==
    pc \in {"parsing", "done", "error", "fault"}
    => Len(m_items) = Len(Before) + nTopPaths

C8_Witness == pc = "done" /\ mode = "stream" /\ nTopPaths >= 1 /\ nPaths > nTopPaths

\* C9: every group written by Save holds exactly one <left-readonly> and one
\* <right-readonly>, and one <middle-readonly> exactly when the middle path is
\* not empty.
C9_ReadOnlyEmission ==
    pc = "saved"
    => /\ NumGroups(file) = Len(orig)
       /\ \A i \in 1..Len(orig) :
            /\ Count(Group(file, i), Left_ro_element_name) = 1
            /\ Count(Group(file, i), Right_ro_element_name) = 1
            /\ Count(Group(file, i), Middle_ro_element_name)
                 = (IF orig[i].m_paths.Middle # <<>> THEN 1 ELSE 0)

C9_Witness ==
    /\ pc = "saved"
    /\ \E i \in 1..Len(orig) :
         /\ orig[i].m_paths.Left = <<>> /\ orig[i].m_paths.Middle = <<>>
         /\ orig[i].m_bMiddleReadOnly
    /\ \E i \in 1..Len(orig) : orig[i].m_paths.Middle # <<>>

\* C10: <filter> is written exactly when saveFilter is true and the filter is
\* not empty, and <unpacker> likewise; an entry whose non-empty filter
\* (unpacker) is not persisted reads back with the field empty and its has
\* flag false.
C10_PersistGate ==
    RoundTripDone
    => /\ Len(m_items) = Len(orig)
       /\ \A i \in 1..Len(orig) :
            /\ Count(Group(file, i), Filter_element_name)
                 = (IF orig[i].m_bSaveFilter /\ orig[i].m_filter # <<>> THEN 1 ELSE 0)
            /\ Count(Group(file, i), Unpacker_element_name)
                 = (IF orig[i].m_bSaveUnpacker /\ orig[i].m_unpacker # <<>> THEN 1 ELSE 0)
            /\ (~orig[i].m_bSaveFilter /\ orig[i].m_filter # <<>>)
               => (m_items[i].m_filter = <<>> /\ ~m_items[i].m_bHasFilter)
            /\ (~orig[i].m_bSaveUnpacker /\ orig[i].m_unpacker # <<>>)
               => (m_items[i].m_unpacker = <<>> /\ ~m_items[i].m_bHasUnpacker)

C10_Witness ==
    /\ RoundTripDone
    /\ \E i \in 1..Len(orig) :
         /\ ~orig[i].m_bSaveFilter /\ orig[i].m_filter # <<>>
         /\ ~orig[i].m_bSaveUnpacker /\ orig[i].m_unpacker # <<>>

----------------------------------------------------------------------------
(* The accessors of ProjectFileItem, called on the one entry of a document *)

\* PathContext::SetLeft, SetMiddle, SetRight with bNormalized false: the path
\* of one side is stored, the other sides are kept
PathContextSet(paths, side, path) == [paths EXCEPT ![side] = path]

\* ProjectFileItem::HasSubfolders
HasSubfolders(item) == item.m_bHasSubfolders

\* ProjectFileItem::GetSubfolders
GetSubfolders(item) == item.m_subfolders

\* Recurse that takes every nonzero subfolders value for a request to recurse
RecurseOnNonzero(item, recurse) ==
    IF HasSubfolders(item) THEN GetSubfolders(item) # 0 ELSE recurse

\* GetPaths, the flag half: if (HasSubfolders()) bSubfolders =
\* (GetSubfolders() == 1)
Recurse(item, recurse) ==
    IF HasSubfolders(item) THEN GetSubfolders(item) = 1 ELSE recurse

\* an absent read-only argument (pReadOnly == nullptr), and a supplied one
NoReadOnly == [given |-> FALSE, value |-> FALSE]
ReadOnlyArgs == {NoReadOnly, [given |-> TRUE, value |-> FALSE],
                 [given |-> TRUE, value |-> TRUE]}

\* StoreSide that writes the flag on every call, false when none was supplied
StoreSideAlwaysFlag(item, side, flag, path, pReadOnly) ==
    [item EXCEPT !.m_paths = PathContextSet(@, side, path),
                 ![flag] = pReadOnly.value]

\* SetLeft, SetMiddle, SetRight: m_paths.SetX(sX, false); if (pReadOnly !=
\* nullptr) m_bXReadOnly = *pReadOnly
StoreSide(item, side, flag, path, pReadOnly) ==
    [item EXCEPT !.m_paths = PathContextSet(@, side, path),
                 ![flag] = IF pReadOnly.given THEN pReadOnly.value ELSE @]

\* the read-only member that belongs to a side
FlagOf(side) ==
    CASE side = "Left" -> "m_bLeftReadOnly"
      [] side = "Middle" -> "m_bMiddleReadOnly"
      [] side = "Right" -> "m_bRightReadOnly"

\* the entries the accessors are called on: every subfolders value with and
\* without its has flag
AccItems ==
    {[item EXCEPT !.m_subfolders = n, !.m_bHasSubfolders = h]
        : item \in {ProjectFileItem,
                    [ProjectFileItem EXCEPT
                        !.m_paths = [Left |-> StrA, Middle |-> StrEB, Right |-> StrA],
                        !.m_bHasLeft = TRUE, !.m_bHasMiddle = TRUE, !.m_bHasRight = TRUE,
                        !.m_bMiddleReadOnly = TRUE, !.m_bRightReadOnly = TRUE]},
          n \in {-1, 0, 1, 2}, h \in BOOLEAN}

\* the paths the callers pass
AccPaths == {<<>>, StrA, StrEB}

InitAcc ==
    /\ m_items \in {<<item>> : item \in AccItems}
    /\ orig = m_items
    /\ m_stack = <<>>
    /\ pc = "idle"
    /\ mode = "none"
    /\ file = <<>>
    /\ pos = 0
    /\ rest = <<>>
    /\ nEvents = 0
    /\ rootDone = FALSE
    /\ opened = <<>>
    /\ owner = <<>>
    /\ nPaths = 0
    /\ nTopPaths = 0
    /\ cur = NoText
    /\ files = [Left |-> <<>>, Middle |-> <<>>, Right |-> <<>>]
    /\ bSubfolders \in BOOLEAN
    /\ last = [op |-> "none", n |-> 0]

\* what no accessor touches
parseVars == <<m_stack, pc, mode, orig, file, pos, rest, nEvents, rootDone,
               opened, owner, nPaths, nTopPaths, cur>>

\* ProjectFileItem::GetPaths(files, bSubfolders)
GetPaths ==
    /\ last.n < MaxCalls
    /\ files' = m_items[1].m_paths
    /\ bSubfolders' = Recurse(m_items[1], bSubfolders)
    /\ last' = [op |-> "GetPaths", n |-> last.n + 1, item |-> m_items[1], recurse |-> bSubfolders]
    /\ UNCHANGED m_items
    /\ UNCHANGED parseVars

\* the body shared by the three set accessors
SetSide(side, path, pReadOnly) ==
    /\ last.n < MaxCalls
    /\ m_items' = [m_items EXCEPT ![1] = StoreSide(@, side, FlagOf(side), path, pReadOnly)]
    /\ last' = [op |-> "Set", n |-> last.n + 1, side |-> side, item |-> m_items[1], path |-> path,
                pReadOnly |-> pReadOnly]
    /\ UNCHANGED <<files, bSubfolders>>
    /\ UNCHANGED parseVars

\* ProjectFileItem::SetLeft(sLeft, pReadOnly)
SetLeft == \E path \in AccPaths, pReadOnly \in ReadOnlyArgs : SetSide("Left", path, pReadOnly)

\* ProjectFileItem::SetMiddle(sMiddle, pReadOnly)
SetMiddle == \E path \in AccPaths, pReadOnly \in ReadOnlyArgs : SetSide("Middle", path, pReadOnly)

\* ProjectFileItem::SetRight(sRight, pReadOnly)
SetRight == \E path \in AccPaths, pReadOnly \in ReadOnlyArgs : SetSide("Right", path, pReadOnly)

NextAcc ==
    \/ GetPaths
    \/ SetLeft
    \/ SetMiddle
    \/ SetRight

SpecAcc == InitAcc /\ [][NextAcc]_vars

\* C11: GetPaths hands out the three paths; it leaves the caller's recurse
\* flag as it was when the entry has no subfolders value, and otherwise sets
\* it to true exactly when the subfolders value is 1 (0, -1 and 2 give false).
C11_GetPathsRecurse ==
    last.op = "GetPaths" =>
        /\ files = last.item.m_paths
        /\ m_items[1] = last.item
        /\ ~last.item.m_bHasSubfolders => bSubfolders = last.recurse
        /\ last.item.m_bHasSubfolders => bSubfolders = (last.item.m_subfolders = 1)

\* GetPaths has been called with a recurse flag of true on an entry whose
\* subfolders value is present and is 2 and whose paths are set
C11_Witness ==
    /\ last.op = "GetPaths"
    /\ last.recurse
    /\ last.item.m_bHasSubfolders
    /\ last.item.m_subfolders = 2
    /\ last.item.m_paths.Left # <<>>

\* the members of an entry other than the paths and the read-only flags
OtherMembers(item) ==
    [f \in (DOMAIN item) \ {"m_paths", "m_bLeftReadOnly", "m_bMiddleReadOnly",
                            "m_bRightReadOnly"} |-> item[f]]

\* C12: a set accessor stores the given path on its side and changes that
\* side's read-only flag only when a read-only argument is supplied, to the
\* supplied value; the other two paths, the other two read-only flags and
\* every other member (has flags, persist flags, options) stay as they were.
C12_SetAccessorFrame ==
    last.op = "Set" =>
        /\ m_items[1].m_paths[last.side] = last.path
        /\ \A side \in {"Left", "Middle", "Right"} \ {last.side} :
              /\ m_items[1].m_paths[side] = last.item.m_paths[side]
              /\ m_items[1][FlagOf(side)] = last.item[FlagOf(side)]
        /\ m_items[1][FlagOf(last.side)] =
              IF last.pReadOnly.given THEN last.pReadOnly.value
              ELSE last.item[FlagOf(last.side)]
        /\ OtherMembers(m_items[1]) = OtherMembers(last.item)

\* SetMiddle has been called without a read-only argument on an entry whose
\* middle side was read-only and whose other paths were set
C12_Witness ==
    /\ last.op = "Set"
    /\ last.side = "Middle"
    /\ ~last.pReadOnly.given
    /\ last.item.m_bMiddleReadOnly
    /\ last.item.m_paths.Left # <<>>
    /\ last.item.m_paths.Right # <<>>
    /\ last.path # <<>>

----------------------------------------------------------------------------
(* Text delivered in several events *)

\* the elements whose text the handler appends to a string member
StringNames ==
    {Left_element_name, Middle_element_name, Right_element_name,
     Filter_element_name, Unpacker_element_name, Prediffer_element_name}

\* the elements whose text the handler parses as an integer
IntNames == {Subfolders_element_name, White_spaces_element_name, Compare_method_element_name}

\* the elements whose text the handler parses as an integer and compares with 0
BoolNames ==
    {Left_ro_element_name, Middle_ro_element_name, Right_ro_element_name,
     Ignore_blank_lines_element_name, Ignore_case_element_name,
     Ignore_cr_diff_element_name, Ignore_numbers_element_name,
     Ignore_codepage_diff_element_name, Ignore_comment_diff_element_name}

\* the member an element's text goes to
FieldOf(item, tagname) ==
    CASE tagname = Left_element_name -> item.m_paths.Left
      [] tagname = Middle_element_name -> item.m_paths.Middle
      [] tagname = Right_element_name -> item.m_paths.Right
      [] tagname = Filter_element_name -> item.m_filter
      [] tagname = Unpacker_element_name -> item.m_unpacker
      [] tagname = Prediffer_element_name -> item.m_prediffer
      [] tagname = Subfolders_element_name -> item.m_subfolders
      [] tagname = White_spaces_element_name -> item.m_nIgnoreWhite
      [] tagname = Compare_method_element_name -> item.m_nCompareMethod
      [] tagname = Left_ro_element_name -> item.m_bLeftReadOnly
      [] tagname = Middle_ro_element_name -> item.m_bMiddleReadOnly
      [] tagname = Right_ro_element_name -> item.m_bRightReadOnly
      [] tagname = Ignore_blank_lines_element_name -> item.m_bIgnoreBlankLines
      [] tagname = Ignore_case_element_name -> item.m_bIgnoreCase
      [] tagname = Ignore_cr_diff_element_name -> item.m_bIgnoreEol
      [] tagname = Ignore_numbers_element_name -> item.m_bIgnoreNumbers
      [] tagname = Ignore_codepage_diff_element_name -> item.m_bIgnoreCodepage
      [] tagname = Ignore_comment_diff_element_name -> item.m_bFilterCommentsLines

\* the bytes of a run of text events, in delivery order
RECURSIVE Concat(_)
Concat(frags) ==
    IF frags = <<>> THEN <<>> ELSE Head(frags) \o Concat(Tail(frags))

\* the last entry of the document
Back == m_items[Len(m_items)]

\* an element's text was dispatched, in events that each carried text, and
\* the element has closed since
TextClosed(names) ==
    /\ cur.name \in names
    /\ ~cur.open
    /\ Len(m_items) > 0
    /\ \A i \in 1..Len(cur.frags) : cur.frags[i] # <<>>

\* C13: for <left>, <middle>, <right>, <filter>, <unpacker> and <prediffer>,
\* when the text of one element arrives as a sequence of text events, the
\* member holds, while the element is open and after it has closed, the value
\* it had before followed by all the fragments in delivery order.
C13_FragmentsConcatenated ==
    (cur.name \in StringNames /\ Len(m_items) > 0) =>
        FieldOf(Back, cur.name) =
            FieldOf(cur.base[1], cur.name) \o toTString(Concat(cur.frags))

\* a <left> element has closed whose text arrived in two non-empty events
\* and was appended to a left path that was not empty
C13_Witness ==
    /\ TextClosed({Left_element_name})
    /\ Len(cur.frags) = 2
    /\ FieldOf(cur.base[1], Left_element_name) # <<>>
    /\ Len(FieldOf(Back, Left_element_name)) >= 3

\* C14: hidden items are matched by name alone: every text event whose
\* innermost element is <hidden-item>, at any depth and under any parent,
\* while an entry exists, appends one item to the last entry's list and sets
\* its has-hidden-items flag; and one <hidden-item> element contributes
\* exactly one list item.
C14_OneItemPerHiddenItemElement ==
    (cur.name = Hidden_items_element_name /\ Len(m_items) > 0) =>
        /\ Back.m_vSavedHiddenItems =
              cur.base[1].m_vSavedHiddenItems
                  \o [i \in 1..Len(cur.frags) |-> toTString(cur.frags[i])]
        /\ Back.m_bHasHiddenItems
        /\ TextClosed({Hidden_items_element_name}) =>
              Len(Back.m_vSavedHiddenItems) = Len(cur.base[1].m_vSavedHiddenItems) + 1

\* C17: integer and boolean members are last-write-wins: once an element of
\* an integer member has closed, the member is the leading-integer parse (0
\* when there is none) of that element's text, and a boolean member is true
\* exactly when that parse is nonzero.
C17_LastOccurrenceWins ==
    /\ TextClosed(IntNames) =>
          FieldOf(Back, cur.name) = atoi(Concat(cur.frags))
    /\ TextClosed(BoolNames) =>
          FieldOf(Back, cur.name) = (atoi(Concat(cur.frags)) # 0)

----------------------------------------------------------------------------
(* The elements Save writes for the comparison options, and their order *)

\* the six boolean comparison options
BoolOptionNames ==
    {Ignore_blank_lines_element_name, Ignore_case_element_name,
     Ignore_cr_diff_element_name, Ignore_numbers_element_name,
     Ignore_codepage_diff_element_name, Ignore_comment_diff_element_name}

\* the persist flag of a comparison option
SaveFlagOf(item, tagname) ==
    CASE tagname = White_spaces_element_name -> item.m_bSaveIgnoreWhite
      [] tagname = Ignore_blank_lines_element_name -> item.m_bSaveIgnoreBlankLines
      [] tagname = Ignore_case_element_name -> item.m_bSaveIgnoreCase
      [] tagname = Ignore_cr_diff_element_name -> item.m_bSaveIgnoreEol
      [] tagname = Ignore_numbers_element_name -> item.m_bSaveIgnoreNumbers
      [] tagname = Ignore_codepage_diff_element_name -> item.m_bSaveIgnoreCodepage
      [] tagname = Ignore_comment_diff_element_name -> item.m_bSaveFilterCommentsLines

\* the element tagname is in the i-th group exactly when its persist flag is set
EmittedIffPersisted(i, tagname) ==
    Count(Group(file, i), tagname) = (IF SaveFlagOf(orig[i], tagname) THEN 1 ELSE 0)

\* C15 (as claimed): each of <white-spaces> and the six boolean options is
\* written exactly when its persist flag is true, whatever its has flag, and
\* its text is always the literal "1" or "0".
C15_SevenLiteralBooleans ==
    pc = "saved" =>
        \A i \in 1..Len(orig) :
            \A tagname \in BoolOptionNames \cup {White_spaces_element_name} :
                /\ EmittedIffPersisted(i, tagname)
                /\ Texts(Group(file, i), tagname) \subseteq {<<49>>, <<48>>}

\* C15 (amended): each of the seven is written exactly when its persist flag
\* is true, whatever its has flag; the text of the six boolean options is "1"
\* for true and "0" for false, and the text of <white-spaces> is the decimal
\* form of the integer m_nIgnoreWhite.
C15_SixLiteralBooleansOneInteger ==
    pc = "saved" =>
        \A i \in 1..Len(orig) :
            /\ \A tagname \in BoolOptionNames :
                  /\ EmittedIffPersisted(i, tagname)
                  /\ Texts(Group(file, i), tagname)
                        \subseteq {IF FieldOf(orig[i], tagname) THEN <<49>> ELSE <<48>>}
            /\ EmittedIffPersisted(i, White_spaces_element_name)
            /\ \A text \in Texts(Group(file, i), White_spaces_element_name) :
                  /\ atoi(text) = orig[i].m_nIgnoreWhite
                  /\ \A k \in 1..Len(text) : IsDigit(text[k])

\* a saved document with an entry whose white-spaces value 2 is persisted and
\* an entry with a set option that is not persisted and an unset one that is
C15_Witness ==
    /\ pc = "saved"
    /\ \E i \in 1..Len(orig) :
          orig[i].m_nIgnoreWhite = 2 /\ orig[i].m_bSaveIgnoreWhite
    /\ \E i \in 1..Len(orig) :
          /\ orig[i].m_bIgnoreNumbers /\ ~orig[i].m_bSaveIgnoreNumbers
          /\ ~orig[i].m_bHasIgnoreBlankLines /\ orig[i].m_bSaveIgnoreBlankLines

\* the order in which Save writes the children of a <paths> group
EmissionOrder ==
    <<Left_element_name, Middle_element_name, Right_element_name,
      Filter_element_name, Subfolders_element_name, Left_ro_element_name,
      Middle_ro_element_name, Right_ro_element_name, Unpacker_element_name,
      Prediffer_element_name, White_spaces_element_name,
      Ignore_blank_lines_element_name, Ignore_case_element_name,
      Ignore_cr_diff_element_name, Ignore_numbers_element_name,
      Ignore_codepage_diff_element_name, Ignore_comment_diff_element_name,
      Compare_method_element_name, Hidden_list_element_name>>

\* the place of a name in EmissionOrder, 0 for a name that is not in it
Rank(tagname) ==
    IF \E k \in 1..Len(EmissionOrder) : EmissionOrder[k] = tagname
    THEN CHOOSE k \in 1..Len(EmissionOrder) : EmissionOrder[k] = tagname
    ELSE 0

IsChildStart(e) ==
    e.t = "start" /\ e.n \notin {Paths_element_name, Hidden_items_element_name}

\* the start tags of the children of the group g, in the order written
Children(g) == SelectSeq(g, IsChildStart)

\* how many elements are open after the first k writer calls of f
OpenAfter(f, k) ==
    Cardinality({ j \in 1..k : f[j].t = "start" })
        - Cardinality({ j \in 1..k : f[j].t = "end" })

\* C16: Save writes a single <project> root that holds one <paths> group per
\* entry, in document order; inside every group the children follow the
\* order left, middle, right, filter, subfolders, left-readonly,
\* middle-readonly, right-readonly, unpacker, prediffer, white-spaces,
\* ignore-blank-lines, ignore-case, ignore-carriage-return-diff,
\* ignore-numbers, ignore-codepage-diff, ignore-comment-diff, compare-method,
\* hidden-list, each at most once.
C16_EmissionOrder ==
    pc = "saved" =>
        /\ file[1] = WStart(Root_element_name)
        /\ file[Len(file)] = WEnd(Root_element_name)
        /\ \A k \in 1..(Len(file) - 1) : OpenAfter(file, k) >= 1
        /\ \A k \in 1..Len(file) :
              file[k] = WStart(Paths_element_name) => OpenAfter(file, k) = 2
        /\ NumGroups(file) = Len(orig)
        /\ \A i \in 1..Len(orig) :
              LET children == Children(Group(file, i)) IN
              /\ \A k \in 1..Len(children) : Rank(children[k].n) > 0
              /\ \A k \in 1..(Len(children) - 1) :
                    Rank(children[k].n) < Rank(children[k + 1].n)
              /\ Count(Group(file, i), Left_element_name)
                    = (IF orig[i].m_paths.Left # <<>> THEN 1 ELSE 0)
              /\ Count(Group(file, i), Right_element_name)
                    = (IF orig[i].m_paths.Right # <<>> THEN 1 ELSE 0)
              /\ Texts(Group(file, i), Left_element_name)
                    \subseteq {toUTF8(orig[i].m_paths.Left)}
              /\ Texts(Group(file, i), Right_element_name)
                    \subseteq {toUTF8(orig[i].m_paths.Right)}

\* a saved document of two entries, the first with paths, subfolders and
\* read-only elements, the second with a hidden-item list
C16_Witness ==
    /\ pc = "saved"
    /\ Len(orig) = 2
    /\ orig[1].m_paths.Left # <<>>
    /\ orig[1].m_paths.Middle # <<>>
    /\ Len(Children(Group(file, 1))) >= 8
    /\ Count(Group(file, 2), Hidden_list_element_name) = 1

----------------------------------------------------------------------------
(* Read on a document that holds entries, the current entry, the stack *)

\* C18: Read populates a fresh document.  Stated on the entries a document
\* holds before the call: when Read has returned they are all still there,
\* in their places, with every member as it was, whatever the source holds
\* before its first <paths> element.
C18_ReadKeepsEarlierEntries ==
    (mode = "stream" /\ pc = "done") =>
        /\ Len(m_items) >= Len(orig)
        /\ \A i \in 1..Len(orig) : m_items[i] = orig[i]

\* C19: a parsing step changes no entry but the last one and removes none:
\* every entry that has an entry after it stays as it is, so once a later
\* <paths> has been opened no event changes an earlier entry.
C19_OnlyLastEntryChanges ==
    [][pc = "parsing" =>
          /\ Len(m_items') >= Len(m_items)
          /\ \A i \in 1..(Len(m_items) - 1) : m_items'[i] = m_items[i]]_vars

\* this Read has appended two entries, the earlier of them was filled, and
\* text was dispatched after the later one was opened
C19_Witness ==
    /\ pc = "parsing"
    /\ Len(m_items) >= Len(Before) + 2
    /\ m_items[Len(m_items) - 1] # ProjectFileItem
    /\ cur.name # ""
    /\ cur.base[1] # Back

\* the unmatched end tags and the unmatched start tags of f[lo..hi]
RECURSIVE Unmatched(_, _, _)
Unmatched(f, lo, hi) ==
    IF lo > hi THEN [ends |-> 0, starts |-> <<>>]
    ELSE IF lo = hi
    THEN [ends |-> IF f[lo].t = "end" THEN 1 ELSE 0,
          starts |-> IF f[lo].t = "start" THEN <<f[lo].n>> ELSE <<>>]
    ELSE LET mid == (lo + hi) \div 2
             a == Unmatched(f, lo, mid)
             b == Unmatched(f, mid + 1, hi)
             c == IF Len(a.starts) < b.ends THEN Len(a.starts) ELSE b.ends
         IN  [ends |-> a.ends + (b.ends - c),
              starts |-> SubSeq(a.starts, 1, Len(a.starts) - c) \o b.starts]

\* the names of the elements open after the first k tags and texts of f, in
\* opening order
OpenElements(f, k) == Unmatched(f, 1, k).starts

\* C20: on a well-nested stream the stack holds, after every event, exactly
\* the names of the open elements in opening order, so the name a text event
\* consults is the innermost open element; an element-close never finds the
\* stack empty, and the stack is empty when the document has ended.
C20_StackIsOpenElements ==
    /\ (mode = "file" /\ pc \in {"parsing", "done"}) =>
          m_stack = OpenElements(file, pos - 1)
    /\ (pc = "parsing" /\ OffersEnd) => m_stack # <<>>
    /\ (pc = "parsing" /\ TextOffers # {}) => m_stack # <<>>
    /\ Len(m_stack) = Len(owner)
    /\ pc = "done" => m_stack = <<>>

\* the second group of a saved document is being read and the text of a
\* <hidden-item>, four elements deep, is about to be delivered
C20_Witness ==
    /\ mode = "file"
    /\ pc = "parsing"
    /\ nPaths = 2
    /\ Len(m_stack) = 4
    /\ m_stack[4] = Hidden_items_element_name
    /\ TextOffers # {}

====
